---- MODULE Spec2Model ----
(***************************************************************************)
(* Model of the configuration pipeline of reverse-proxy-mcp:               *)
(*   - the certificate store and resolver (services/certificate.py and     *)
(*     api/v1/certificates.py),                                            *)
(*   - the renderer (core/nginx.py, NGINX_TEMPLATE and generate_config),   *)
(*   - the validator, reload trigger and apply orchestrator                *)
(*     (core/nginx.py, validate_config / reload_nginx / apply_config).     *)
(* Strings that the code takes apart (host names, certificate domains)     *)
(* are sequences of one-character strings, so that split, startswith and   *)
(* the f-string concatenations are computed rather than assumed.           *)
(***************************************************************************)
EXTENDS Integers, Sequences, FiniteSets, TLC

\* ------------------------------------------------------------------------
\* Bounds of the model
\* ------------------------------------------------------------------------
MaxCertId == 2

NWorkers == 2

\* number of committed changes of the desired state
MaxDbVer == 2

\* ticks of wall-clock time (half seconds)
MaxClock == 2

\* publish cycles that can be in progress
MaxCycles == 2

\* rows of the proxy_rules table
MaxRules == 2

\* ------------------------------------------------------------------------
\* Values
\* ------------------------------------------------------------------------
\* SQL NULL / Python None for an integer column
NULL == -1

\* host names and certificate domains, one character per label:
\* "a.e.c" stands for api.example.com, "p.a.e.c" for a name one level deeper,
\* "c" for a name without a dot
D_aec == <<"a", ".", "e", ".", "c">>
D_paec == <<"p", ".", "a", ".", "e", ".", "c">>
D_c == <<"c">>
D_wec == <<"*", ".", "e", ".", "c">>
D_waec == <<"*", ".", "a", ".", "e", ".", "c">>

Hostnames == {D_aec, D_paec, D_c}

CertDomains == {D_aec, D_wec, D_waec}

\* friendly names of certificates (unique in the table)
CertName(k) == <<"n", k>>

CertNames == {CertName(1), CertName(2)}

\* domains an upload request can carry
UploadDomains == {D_aec, D_wec}

Workers == 1..NWorkers

CertIds == 1..MaxCertId

\* certificate_id values a rule row can hold (0 is a storable integer that
\* no certificate row ever has as its id)
RuleCertIds == {NULL} \cup (0..MaxCertId)

VARIABLES
    certs,      \* ssl_certificates table: id -> row
    files,      \* names whose certificate/key files exist under certs_path
    req,        \* per worker: the certificate request it is executing
    last,       \* the operation completed by the last step, with its outcome
    dbver,      \* version of the desired state (number of committed changes)
    now,        \* datetime.utcnow(), in ticks of half a second
    live,       \* content of the file at config_path
    backups,    \* files of backup_dir: timestamp -> content
    temp,       \* content of the file at <config_path>.test
    running,    \* configuration the proxy process has loaded
    ncyc,       \* number of apply_config calls that may run at once
    cyc,        \* per publish cycle: position and locals of apply_config
    rules,      \* proxy_rules table: id -> row
    backends,   \* backend_servers table: id -> row
    settings,   \* proxy_config key/value rows
    doc         \* the document generate_config returned

certVars == <<certs, files, req, last>>

applyVars == <<dbver, now, live, backups, temp, running, ncyc, cyc>>

renderVars == <<rules, backends, settings, doc>>

vars == <<certs, files, req, last, dbver, now, live, backups, temp, running, ncyc, cyc,
          rules, backends, settings, doc>>

Idle == [op |-> "idle"]

NoOp == [op |-> "none"]

\* file contents
NoFile == <<"none">>

OldText == <<"old">>

Partial == <<"partial">>

Text(v) == <<"text", v>>

Cycles == 1..MaxCycles

IdleCycle ==
    [pc |-> "idle", text |-> NoFile, verdict |-> "none", checked |-> NoFile,
     exit |-> "none", vout |-> "none", vok |-> FALSE,
     log |-> <<>>, reloads |-> 0, outcome |-> "none", ok |-> FALSE, msg |-> "",
     pre_live |-> NoFile, pre_backups |-> <<>>]

\* the pipeline at rest (specifications about the certificate store)
ApplyOff ==
    /\ dbver = 0
    /\ now = 0
    /\ live = NoFile
    /\ backups = <<>>
    /\ temp = NoFile
    /\ running = NoFile
    /\ ncyc = 1
    /\ cyc = [p \in Cycles |-> IdleCycle]

\* the certificate store at rest
CertOff ==
    /\ certs = <<>>
    /\ files = {}
    /\ req = [w \in Workers |-> Idle]
    /\ last = NoOp

NotRendered == [rendered |-> FALSE, ok |-> FALSE, blocks |-> <<>>]

\* the renderer at rest
RenderOff ==
    /\ rules = <<>>
    /\ backends = <<>>
    /\ settings = [enable_default_ssl_server |-> FALSE]
    /\ doc = NotRendered

\* ------------------------------------------------------------------------
\* Helpers on the certificate table
\* ------------------------------------------------------------------------
Max(S) == CHOOSE x \in S : \A y \in S : y <= x

\* id given to an inserted row: INTEGER PRIMARY KEY without AUTOINCREMENT
NewCertId == IF DOMAIN certs = {} THEN 1 ELSE Max(DOMAIN certs) + 1

Defaults(tbl) == {i \in DOMAIN tbl : tbl[i].is_default}

\* db.query(SSLCertificate).filter(SSLCertificate.is_default).update({"is_default": False})
UnsetDefaults(tbl) == [i \in DOMAIN tbl |-> [tbl[i] EXCEPT !.is_default = FALSE]]

\* Query.first() without ORDER BY: any matching row, NULL when there is none
First(S) == IF S = {} THEN {NULL} ELSE S

ById(tbl, cid) == {i \in DOMAIN tbl : i = cid}

ByDomain(tbl, d) == {i \in DOMAIN tbl : tbl[i].domain = d}

ByName(tbl, n) == {i \in DOMAIN tbl : tbl[i].name = n}

\* ------------------------------------------------------------------------
\* String helpers (str.split(".", 1), "." in s)
\* ------------------------------------------------------------------------
HasDot(s) == \E i \in 1..Len(s) : s[i] = "."

\* variant: the split is made at the second dot when there is one
FirstDot_second(s) ==
    LET dots == {i \in 1..Len(s) : s[i] = "."}
        first == CHOOSE i \in dots : \A j \in dots : i <= j
    IN  IF dots \ {first} = {} THEN first
        ELSE CHOOSE i \in dots \ {first} : \A j \in dots \ {first} : i <= j

FirstDot(s) == CHOOSE i \in 1..Len(s) : s[i] = "." /\ \A j \in 1..(i - 1) : s[j] # "."

\* s.split(".", 1) for a string that contains a dot
Split1(s) == <<SubSeq(s, 1, FirstDot(s) - 1), SubSeq(s, FirstDot(s) + 1, Len(s))>>

\* variant: the leftmost label is not stripped
WildcardDomain_noStrip(s) == <<"*", ".">> \o s

\* f"*.{parts[1]}"
WildcardDomain(s) == <<"*", ".">> \o Split1(s)[2]

\* ------------------------------------------------------------------------
\* CertificateService.get_default_certificate / get_certificate_for_rule
\* Each returns the set of values the call can return (one id, or NULL).
\* ------------------------------------------------------------------------
get_default_certificate(tbl) == First(Defaults(tbl))

\* variant: the exact-domain match is tried before the explicit certificate_id
get_certificate_for_rule_domainFirst(tbl, host, cid) ==
    IF ByDomain(tbl, host) # {}
    THEN First(ByDomain(tbl, host))
    ELSE IF cid # NULL /\ cid # 0
         THEN First(ById(tbl, cid))
         ELSE IF HasDot(host) /\ ByDomain(tbl, <<"*", ".">> \o Split1(host)[2]) # {}
              THEN First(ByDomain(tbl, <<"*", ".">> \o Split1(host)[2]))
              ELSE First(Defaults(tbl))

get_certificate_for_rule(tbl, host, cid) ==
    IF cid # NULL /\ cid # 0
    THEN First(ById(tbl, cid))
    ELSE IF ByDomain(tbl, host) # {}
         THEN First(ByDomain(tbl, host))
         ELSE IF HasDot(host) /\ Len(Split1(host)) = 2
                 /\ ByDomain(tbl, WildcardDomain(host)) # {}
              THEN First(ByDomain(tbl, WildcardDomain(host)))
              ELSE get_default_certificate(tbl)

\* ------------------------------------------------------------------------
\* The renderer: NGINX_TEMPLATE and NginxConfigGenerator.generate_config.
\* A document is the sequence of its blocks, a block the sequence of its
\* directives, in the order the template emits them.
\* ------------------------------------------------------------------------
RECURSIVE Ascending(_)
\* the rows of a query in id order
Ascending(S) ==
    IF S = {} THEN <<>>
    ELSE LET m == CHOOSE x \in S : \A y \in S : x <= y
         IN  <<m>> \o Ascending(S \ {m})

RECURSIVE Flatten(_)
Flatten(ss) == IF ss = <<>> THEN <<>> ELSE Head(ss) \o Flatten(Tail(ss))

\* stored Text values of ProxyRule.ip_whitelist / custom_headers
TxtNull == [kind |-> "null", items |-> <<>>]

TxtEmpty == [kind |-> "empty", items |-> <<>>]

TxtGarbage == [kind |-> "garbage", items |-> <<>>]

TxtArray(s) == [kind |-> "array", items |-> s]

TxtString(s) == [kind |-> "string", items |-> s]

TxtNumber == [kind |-> "number", items |-> <<>>]

TxtObject(s) == [kind |-> "object", items |-> s]

\* Python truthiness of a str | None column value
Truthy(txt) == txt.kind \notin {"null", "empty"}

\* json.loads(str(value)): the parsed value, or the JSONDecodeError
json_loads(txt) ==
    CASE txt.kind = "array" -> [ok |-> TRUE, type |-> "list", val |-> txt.items]
      [] txt.kind = "string" -> [ok |-> TRUE, type |-> "str", val |-> txt.items]
      [] txt.kind = "number" -> [ok |-> TRUE, type |-> "int", val |-> <<>>]
      [] txt.kind = "object" -> [ok |-> TRUE, type |-> "dict", val |-> txt.items]
      [] OTHER -> [ok |-> FALSE, type |-> "error", val |-> <<>>]

EmptyList == [ok |-> TRUE, type |-> "list", val |-> <<>>]

EmptyDict == [ok |-> TRUE, type |-> "dict", val |-> <<>>]

\* variant: a text that does not parse is taken as a list of one entry
ip_list_rawAsEntry(rule) ==
    IF Truthy(rule.ip_whitelist)
    THEN IF json_loads(rule.ip_whitelist).ok THEN json_loads(rule.ip_whitelist)
         ELSE [ok |-> TRUE, type |-> "list", val |-> <<"raw">>]
    ELSE EmptyList

\* generate_config: ip_list of a rule
ip_list(rule) ==
    IF Truthy(rule.ip_whitelist)
    THEN IF json_loads(rule.ip_whitelist).ok THEN json_loads(rule.ip_whitelist) ELSE EmptyList
    ELSE EmptyList

\* generate_config: custom_headers_dict of a rule
custom_headers_dict(rule) ==
    IF Truthy(rule.custom_headers)
    THEN IF json_loads(rule.custom_headers).ok THEN json_loads(rule.custom_headers) ELSE EmptyDict
    ELSE EmptyDict

\* Jinja: {% if value %}
JinjaTrue(v) == IF v.type = "int" THEN TRUE ELSE Len(v.val) > 0

\* Jinja: {% for x in value %} raises for a value that is not iterable
Iterable(v) == v.type \in {"list", "str", "dict"}

\* the rule cannot be rendered: the template raises
RuleRaises(rule) ==
    \/ JinjaTrue(ip_list(rule)) /\ ~Iterable(ip_list(rule))
    \/ Truthy(rule.custom_headers) /\ custom_headers_dict(rule).type # "dict"

\* variant: the deny all line is inside the loop
AclLines_denyInLoop(rule) ==
    IF JinjaTrue(ip_list(rule))
    THEN Flatten([i \in 1..Len(ip_list(rule).val) |->
                    << <<"allow", ip_list(rule).val[i]>>, <<"deny", "all">> >>])
    ELSE <<>>

\* {% for ip in rule.ip_list %} allow {{ ip }}; {% endfor %} deny all;
AclLines(rule) ==
    IF JinjaTrue(ip_list(rule))
    THEN [i \in 1..Len(ip_list(rule).val) |-> <<"allow", ip_list(rule).val[i]>>]
         \o << <<"deny", "all">> >>
    ELSE <<>>

\* variant: the condition does not look at ssl_enabled
HstsLines_noSslCheck(rule) ==
    IF rule.enable_hsts
    THEN << <<"add_header", "Strict-Transport-Security", <<"max-age", rule.hsts_max_age>> >> >>
    ELSE <<>>

\* {% if rule.enable_hsts and rule.ssl_enabled %} add_header Strict-Transport-Security ...
HstsLines(rule) ==
    IF rule.enable_hsts /\ rule.ssl_enabled
    THEN << <<"add_header", "Strict-Transport-Security", <<"max-age", rule.hsts_max_age>> >> >>
    ELSE <<>>

\* {% if rule.custom_headers %} one add_header per item of custom_headers_dict
CustomHeaderLines(rule) ==
    IF Truthy(rule.custom_headers)
    THEN [i \in 1..Len(custom_headers_dict(rule).val) |->
            <<"add_header", custom_headers_dict(rule).val[i][1], custom_headers_dict(rule).val[i][2]>>]
    ELSE <<>>

\* listener, server_name and certificate directives of a rule's server block
ListenLines(rule, env) ==
    IF rule.ssl_enabled
    THEN << <<"listen", "443 ssl">>, <<"server_name", rule.frontend_domain>>,
            <<"ssl_certificate", env.default_ssl_cert_path>>,
            <<"ssl_certificate_key", env.default_ssl_key_path>> >>
    ELSE << <<"listen", "80">>, <<"server_name", rule.frontend_domain>> >>

\* the location block of a rule
LocationLines(rule, env) ==
    (IF Truthy(rule.rate_limit) THEN << <<"limit_req", "zone=general burst=20 nodelay">> >> ELSE <<>>)
    \o << <<"proxy_set_header", "Host">>, <<"proxy_set_header", "X-Real-IP">>,
          <<"proxy_set_header", "X-Forwarded-For">>, <<"proxy_set_header", "X-Forwarded-Proto">>,
          <<"proxy_pass", IF rule.backend_id \in DOMAIN env.backends
                          THEN env.backends[rule.backend_id].protocol ELSE "http",
            rule.backend_id>> >>

\* the blocks the template emits for one rule
RuleBlocks(rule, env) ==
    (IF rule.force_https /\ rule.ssl_enabled
     THEN << [kind |-> "redirect",
              lines |-> << <<"listen", "80">>, <<"server_name", rule.frontend_domain>>,
                           <<"return", "301">> >>] >>
     ELSE <<>>)
    \o << [kind |-> "rule",
           lines |-> ListenLines(rule, env) \o AclLines(rule) \o HstsLines(rule)
                     \o CustomHeaderLines(rule) \o LocationLines(rule, env)] >>

\* upstream backend_<id> { server <protocol>://<ip>:<port>; }
UpstreamBlock(env, b) ==
    [kind |-> "upstream",
     lines |-> << <<"upstream", b>>, <<"server", env.backends[b].protocol, env.backends[b].addr>> >>]

\* the default catch-all TLS server
DefaultSslBlocks(env) ==
    IF env.enable_default_ssl_server /\ env.default_ssl_cert_path # <<>> /\ env.default_ssl_key_path # <<>>
    THEN << [kind |-> "default_ssl",
             lines |-> << <<"listen", "443 ssl default_server">>, <<"server_name", "_">>,
                          <<"ssl_certificate", env.default_ssl_cert_path>>,
                          <<"ssl_certificate_key", env.default_ssl_key_path>>,
                          <<"return", "444">> >>] >>
    ELSE <<>>

ActiveRules(tbl) == {i \in DOMAIN tbl : tbl[i].is_active}

ActiveBackends(tbl) == {b \in DOMAIN tbl : tbl[b].is_active}

RenderError == [ok |-> FALSE, blocks |-> <<>>]

\* generate_config(db): the rendered document, or the exception of the template
generate_config(rtbl, env) ==
    IF \E i \in ActiveRules(rtbl) : RuleRaises(rtbl[i])
    THEN RenderError
    ELSE [ok |-> TRUE,
          blocks |->
            LET bs == Ascending(ActiveBackends(env.backends))
                rs == Ascending(ActiveRules(rtbl))
            IN  [k \in 1..Len(bs) |-> UpstreamBlock(env, bs[k])]
                \o DefaultSslBlocks(env)
                \o Flatten([k \in 1..Len(rs) |-> RuleBlocks(rtbl[rs[k]], env)])]

\* ------------------------------------------------------------------------
\* Rendering a snapshot of the desired state
\* ------------------------------------------------------------------------
RuleIds == 1..MaxRules

\* frontend_domain is unique: rule i has the i-th of these names
RuleDomains == <<D_aec, D_paec, D_c, <<"e", ".", "c">> >>

HstsMaxAge == 31536000

DefaultCertPath == <<"/etc/ssl/certs", "default", ".crt">>

DefaultKeyPath == <<"/etc/ssl/private", "default", ".key">>

\* save_certificate_files: the paths of the files of the certificate named n
CertPath(n) == <<"certs_path", n, ".crt">>

KeyPath(n) == <<"certs_path", n, ".key">>

STS == "Strict-Transport-Security"

Whitelists ==
    {TxtNull, TxtEmpty, TxtGarbage, TxtNumber, TxtArray(<<>>), TxtArray(<<"ip1", "ip2">>),
     TxtString(<<"i", "p">>)}

CustomHeaders ==
    {TxtNull, TxtObject(<< <<"X-Test", "v">> >>), TxtObject(<< <<STS, "max-age=1">> >>)}

\* rows of proxy_rules: the first rule takes every combination of the fields
\* the template reads, the others vary in listener and allow-list
FirstRuleRows ==
    [frontend_domain : {RuleDomains[1]}, backend_id : {1}, certificate_id : {NULL, 1},
     ip_whitelist : Whitelists, is_active : BOOLEAN, enable_hsts : BOOLEAN,
     hsts_max_age : {HstsMaxAge}, custom_headers : CustomHeaders,
     rate_limit : {TxtNull}, ssl_enabled : BOOLEAN, force_https : BOOLEAN]

OtherRuleRow(i, ssl, wl) ==
    [frontend_domain |-> RuleDomains[i], backend_id |-> 1, certificate_id |-> NULL,
     ip_whitelist |-> wl, is_active |-> TRUE, enable_hsts |-> TRUE,
     hsts_max_age |-> HstsMaxAge, custom_headers |-> TxtNull,
     rate_limit |-> TxtString(<<"1", "0", "r", "/", "s">>), ssl_enabled |-> ssl,
     force_https |-> TRUE]

BackendTables ==
    {<<>>,
     [b \in {1} |-> [protocol |-> "https", addr |-> "10.0.0.1:8080", is_active |-> TRUE]],
     [b \in {1} |-> [protocol |-> "http", addr |-> "10.0.0.1:8080", is_active |-> FALSE]]}

CertTables ==
    {<<>>,
     [c \in {1} |-> [name |-> CertName(1), domain |-> D_aec, is_default |-> FALSE]],
     [c \in {1} |-> [name |-> CertName(1), domain |-> D_wec, is_default |-> TRUE]]}

\* the get_config reads of generate_config, with the active backends
Env ==
    [backends |-> backends,
     enable_default_ssl_server |-> settings.enable_default_ssl_server,
     default_ssl_cert_path |-> DefaultCertPath,
     default_ssl_key_path |-> DefaultKeyPath]

InitRender ==
    /\ ApplyOff
    /\ certs \in CertTables
    /\ files = {certs[i].name : i \in DOMAIN certs}
    /\ req = [w \in Workers |-> Idle]
    /\ last = NoOp
    /\ \E r1 \in FirstRuleRows :
       \E ssl \in [RuleIds \ {1} -> BOOLEAN] :
       \E wl \in [RuleIds \ {1} -> {TxtNull, TxtArray(<<"ip3">>)}] :
         rules = [i \in RuleIds |-> IF i = 1 THEN r1 ELSE OtherRuleRow(i, ssl[i], wl[i])]
    /\ backends \in BackendTables
    /\ settings \in [enable_default_ssl_server : BOOLEAN]
    /\ doc = NotRendered

\* config = generator.generate_config(db)
GenerateConfig ==
    /\ ~doc.rendered
    /\ doc' = [rendered |-> TRUE, ok |-> generate_config(rules, Env).ok,
               blocks |-> generate_config(rules, Env).blocks]
    /\ UNCHANGED <<rules, backends, settings, certVars, applyVars>>

NextRender == GenerateConfig

SpecRender == InitRender /\ [][NextRender]_vars

\* roles of authenticated users (User.role)
Roles == {"admin", "user"}

\* variant: any authenticated user passes
require_admin_anyRole(role) == TRUE

\* api/dependencies.py require_admin: TRUE when the request goes on to the handler,
\* FALSE when HTTPException(403) is raised
require_admin(role) == role = "admin"

\* ------------------------------------------------------------------------
\* Certificate requests.  A request reads in one step and writes in a later
\* one; the statements from the first UPDATE/INSERT/DELETE to commit run
\* under the database's write lock and are one step.
\* ------------------------------------------------------------------------
InitCert ==
    /\ ApplyOff
    /\ RenderOff
    /\ certs = <<>>
    /\ files = {}
    /\ req = [w \in Workers |-> Idle]
    /\ last = NoOp

\* POST /certificates: name check (409) and start of the upload
UploadCheck(w, role, name, domain, is_default) ==
    /\ UNCHANGED <<applyVars, renderVars>>
    /\ req[w] = Idle
    /\ IF ~require_admin(role)
       THEN /\ last' = [op |-> "upload", status |-> 403, role |-> role]
            /\ UNCHANGED req
       ELSE IF ByName(certs, name) # {}
       THEN /\ last' = [op |-> "upload", status |-> 409, role |-> role]
            /\ UNCHANGED req
       ELSE /\ req' = [req EXCEPT ![w] = [op |-> "upload", role |-> role, name |-> name,
                                           domain |-> domain, is_default |-> is_default]]
            /\ last' = NoOp
    /\ UNCHANGED <<certs, files>>

\* validate_certificate_pair raises ValueError: 400, nothing saved
UploadInvalid(w) ==
    /\ UNCHANGED <<applyVars, renderVars>>
    /\ req[w].op = "upload"
    /\ req' = [req EXCEPT ![w] = Idle]
    /\ last' = [op |-> "upload", status |-> 400, role |-> req[w].role]
    /\ UNCHANGED <<certs, files>>

\* the row a create_certificate call inserts
NewRow(r) == [name |-> r.name, domain |-> r.domain, is_default |-> r.is_default]

\* variant: the other defaults are not unset
CreateTable_noUnset(tbl, r, id) ==
    [i \in DOMAIN tbl \cup {id} |-> IF i = id THEN NewRow(r) ELSE tbl[i]]

\* the table after create_certificate's UPDATE and INSERT
CreateTable(tbl, r, id) ==
    LET base == IF r.is_default THEN UnsetDefaults(tbl) ELSE tbl
    IN  [i \in DOMAIN tbl \cup {id} |-> IF i = id THEN NewRow(r) ELSE base[i]]

\* CertificateService.create_certificate: files saved, defaults unset, row inserted
create_certificate(w) ==
    /\ UNCHANGED <<applyVars, renderVars>>
    /\ req[w].op = "upload"
    /\ NewCertId <= MaxCertId
    /\ files' = files \cup {req[w].name}
    /\ req' = [req EXCEPT ![w] = Idle]
    /\ IF ByName(certs, req[w].name) # {}
       THEN \* unique constraint on name: IntegrityError, transaction rolled back
            /\ last' = [op |-> "upload", status |-> 500, role |-> req[w].role]
            /\ UNCHANGED certs
       ELSE /\ certs' = CreateTable(certs, req[w], NewCertId)
            /\ last' = [op |-> "upload", status |-> 201, role |-> req[w].role,
                        id |-> NewCertId]

\* set_default_certificate: the lookup of the row
SetDefaultLookup(w, role, cid) ==
    /\ UNCHANGED <<applyVars, renderVars>>
    /\ req[w] = Idle
    /\ IF ~require_admin(role)
       THEN /\ last' = [op |-> "set_default", status |-> 403, role |-> role, id |-> cid]
            /\ UNCHANGED req
       ELSE IF ById(certs, cid) = {}
       THEN /\ last' = [op |-> "set_default", status |-> 404, role |-> role, id |-> cid]
            /\ UNCHANGED req
       ELSE /\ req' = [req EXCEPT ![w] = [op |-> "set_default", role |-> role, id |-> cid]]
            /\ last' = NoOp
    /\ UNCHANGED <<certs, files>>

\* variant: the other defaults are not unset
SetDefaultTable_noUnset(tbl, cid) ==
    [i \in DOMAIN tbl |-> IF i = cid THEN [tbl[i] EXCEPT !.is_default = TRUE] ELSE tbl[i]]

\* the table after set_default_certificate's UPDATE, assignment and commit
SetDefaultTable(tbl, cid) == [i \in DOMAIN tbl |-> [tbl[i] EXCEPT !.is_default = (i = cid)]]

\* set_default_certificate: unset all, set this one, commit
set_default_certificate(w) ==
    /\ UNCHANGED <<applyVars, renderVars>>
    /\ req[w].op = "set_default"
    /\ req' = [req EXCEPT ![w] = Idle]
    /\ IF ById(certs, req[w].id) = {}
       THEN \* the row went away after the lookup: the flush updates no row
            /\ last' = [op |-> "set_default", status |-> 500, role |-> req[w].role,
                        id |-> req[w].id]
            /\ UNCHANGED certs
       ELSE /\ certs' = SetDefaultTable(certs, req[w].id)
            /\ last' = [op |-> "set_default", status |-> 200, role |-> req[w].role,
                        id |-> req[w].id, before |-> Cardinality(Defaults(certs))]
    /\ UNCHANGED files

\* DELETE /certificates/{cert_id}: the lookup by id
DeleteLookup(w, role, cid) ==
    /\ UNCHANGED <<applyVars, renderVars>>
    /\ req[w] = Idle
    /\ IF ~require_admin(role)
       THEN /\ last' = [op |-> "delete", status |-> 403, role |-> role, id |-> cid]
            /\ UNCHANGED req
       ELSE IF ById(certs, cid) = {}
       THEN /\ last' = [op |-> "delete", status |-> 404, role |-> role, id |-> cid]
            /\ UNCHANGED req
       ELSE /\ req' = [req EXCEPT ![w] = [op |-> "delete", role |-> role, id |-> cid,
                                           domain |-> certs[cid].domain]]
            /\ last' = NoOp
    /\ UNCHANGED <<certs, files>>

\* the table without row i
RemoveRow(tbl, i) == [j \in DOMAIN tbl \ {i} |-> tbl[j]]

\* proxy_rules rows that reference certificate cid
RulesOfCertificate(rtbl, cid) == {r \in DOMAIN rtbl : rtbl[r].certificate_id = cid}

\* variant: the rows that reference the deleted certificate are left as they are
Nullify_keepsReference(rtbl, cid) == rtbl

\* the flush of db.delete(cert): SSLCertificate.proxy_rules has no delete cascade,
\* so the rows of the collection get certificate_id = NULL
Nullify(rtbl, cid) ==
    [r \in DOMAIN rtbl |->
        IF rtbl[r].certificate_id = cid THEN [rtbl[r] EXCEPT !.certificate_id = NULL]
        ELSE rtbl[r]]

\* CertificateService.delete_certificate(db, domain)
delete_certificate(w) ==
    /\ UNCHANGED <<applyVars, backends, settings, doc>>
    /\ req[w].op = "delete"
    /\ req' = [req EXCEPT ![w] = Idle]
    /\ \E i \in First(ByDomain(certs, req[w].domain)) :
         IF i = NULL
         THEN /\ last' = [op |-> "delete", status |-> 500, role |-> req[w].role,
                          id |-> req[w].id]
              /\ UNCHANGED <<certs, files, rules>>
         ELSE /\ files' = files \ {certs[i].name}
              /\ certs' = RemoveRow(certs, i)
              /\ rules' = Nullify(rules, i)
              /\ last' = [op |-> "delete", status |-> 204, role |-> req[w].role,
                          id |-> req[w].id, row |-> i,
                          referenced |-> RulesOfCertificate(rules, i)]

\* one call of get_certificate_for_rule on a rule row (host, certificate_id)
Resolve(host, cid) ==
    /\ UNCHANGED <<applyVars, renderVars>>
    /\ \E c \in get_certificate_for_rule(certs, host, cid) :
         last' = [op |-> "resolve", host |-> host, cid |-> cid, result |-> c]
    /\ UNCHANGED <<certs, files, req>>

NextCert ==
    \/ \E w \in Workers, role \in Roles, n \in CertNames, d \in UploadDomains, b \in BOOLEAN :
         UploadCheck(w, role, n, d, b)
    \/ \E w \in Workers : UploadInvalid(w)
    \/ \E w \in Workers : create_certificate(w)
    \/ \E w \in Workers, role \in Roles, c \in CertIds : SetDefaultLookup(w, role, c)
    \/ \E w \in Workers : set_default_certificate(w)
    \/ \E w \in Workers, role \in Roles, c \in CertIds : DeleteLookup(w, role, c)
    \/ \E w \in Workers : delete_certificate(w)

SpecCert == InitCert /\ [][NextCert]_vars

\* ------------------------------------------------------------------------
\* The resolver and set_default_certificate over any table the schema
\* admits (rows can also be inserted directly, as tests/test_nginx.py does,
\* so the is_default flag may be carried by several rows)
\* ------------------------------------------------------------------------
CertRows(i) == [name : {CertName(i)}, domain : CertDomains, is_default : BOOLEAN]

InitTable ==
    /\ ApplyOff
    /\ RenderOff
    /\ \E S \in SUBSET CertIds : \E tbl \in [S -> UNION {CertRows(i) : i \in S}] :
         /\ \A i \in S : tbl[i] \in CertRows(i)
         /\ certs = tbl
         /\ files = {tbl[i].name : i \in S}
    /\ req = [w \in Workers |-> Idle]
    /\ last = NoOp

NextTable ==
    \/ \E h \in Hostnames, c \in RuleCertIds : Resolve(h, c)
    \/ \E w \in Workers, role \in Roles, c \in CertIds : SetDefaultLookup(w, role, c)
    \/ \E w \in Workers : set_default_certificate(w)

SpecTable == InitTable /\ [][NextTable]_vars

\* ------------------------------------------------------------------------
\* The apply pipeline: NginxConfigGenerator.validate_config, reload_nginx
\* and apply_config.  Render, the three parts of validate_config (write the
\* throwaway file, run the binary, the finally clause), backup, write and
\* reload are one step each.
\* ------------------------------------------------------------------------
InitApply ==
    /\ CertOff
    /\ RenderOff
    /\ dbver = 0
    /\ now = 0
    /\ live \in {NoFile, OldText}
    /\ running = live
    /\ backups = <<>>
    /\ temp = NoFile
    /\ ncyc = 1
    /\ cyc = [p \in Cycles |-> IdleCycle]

Logged(c, stage, res) == [c EXCEPT !.log = Append(@, <<stage, res>>)]

\* "return flag, message"
Returned(c, flag, message) ==
    [c EXCEPT !.pc = "done", !.outcome = "returned", !.ok = flag, !.msg = message]

\* variant: the failure of a stage is logged and the pipeline goes on to reload
ExceptHandler_continue(c, stage) ==
    [Logged(c, stage, "fail") EXCEPT !.pc = "reload"]

\* apply_config's "except Exception": an exception raised in a stage
ExceptHandler(c, stage) ==
    Returned(Logged(c, stage, "fail"), FALSE, "Error applying config: ")

\* a committed change of the desired state
Mutate ==
    /\ dbver < MaxDbVer
    /\ dbver' = dbver + 1
    /\ UNCHANGED <<now, live, backups, temp, running, ncyc, cyc, certVars, renderVars>>

\* half a second passes
Tick ==
    /\ now < MaxClock
    /\ now' = now + 1
    /\ UNCHANGED <<dbver, live, backups, temp, running, ncyc, cyc, certVars, renderVars>>

\* apply_config is called
Start(p) ==
    /\ p <= ncyc
    /\ cyc[p].pc \in {"idle", "done"}
    /\ cyc' = [cyc EXCEPT ![p] = [IdleCycle EXCEPT !.pc = "render",
                                                  !.pre_live = live,
                                                  !.pre_backups = backups]]
    /\ UNCHANGED <<dbver, now, live, backups, temp, running, ncyc, certVars, renderVars>>

\* variant: the rendered text goes to the backup step without being validated
AfterRender_skipsValidate(c, text) ==
    [Logged(c, "render", "ok") EXCEPT !.pc = "backup", !.text = text]

\* apply_config after generate_config has returned new_config: validate_config
\* is called on it
AfterRender(c, text) ==
    [Logged(c, "render", "ok") EXCEPT !.pc = "vwrite", !.text = text]

\* new_config = self.generate_config(db)
Render(p) ==
    /\ cyc[p].pc = "render"
    /\ \E o \in {"ok", "raise"} :
         cyc' = [cyc EXCEPT ![p] =
                   IF o = "ok" THEN AfterRender(@, Text(dbver)) ELSE ExceptHandler(@, "render")]
    /\ UNCHANGED <<dbver, now, live, backups, temp, running, ncyc, certVars, renderVars>>

\* validate_config: open(temp_path, "w") and f.write(config_content)
ValidateWrite(p) ==
    /\ cyc[p].pc = "vwrite"
    /\ \E o \in {"ok", "open_fails", "write_fails"} :
         /\ temp' = CASE o = "ok" -> cyc[p].text
                      [] o = "open_fails" -> temp
                      [] o = "write_fails" -> Partial
         /\ cyc' = [cyc EXCEPT ![p] =
                      IF o = "ok"
                      THEN [@ EXCEPT !.pc = "vrun"]
                      ELSE [@ EXCEPT !.pc = "vclean", !.verdict = "error"]]
    /\ UNCHANGED <<dbver, now, live, backups, running, ncyc, certVars, renderVars>>

\* what validate_config makes of the outcome of subprocess.run(["nginx", "-t", ...])
RunVerdict(o) ==
    CASE o = "zero" -> "ok"
      [] o = "nonzero" -> "invalid"
      [] o = "timeout" -> "timeout"
      [] o = "notfound" -> "error"

\* variant: each validator's file is its own
CheckedFile_ownCopy(shared, own) == own

\* the text "nginx -t -c <config_path>.test" reads: what the file at the fixed
\* temp path holds when the binary runs, not what this validator wrote
CheckedFile(shared, own) == shared

\* validate_config: the binary checks the file at temp_path
ValidateRun(p) ==
    /\ cyc[p].pc = "vrun"
    /\ \E o \in {"zero", "nonzero", "timeout", "notfound"} :
         /\ o = "zero" => temp # NoFile
         /\ cyc' = [cyc EXCEPT ![p] = [@ EXCEPT !.pc = "vclean",
                                                !.exit = o,
                                                !.verdict = RunVerdict(o),
                                                !.checked = IF o = "notfound" THEN NoFile
                                                            ELSE CheckedFile(temp, cyc[p].text)]]
    /\ UNCHANGED <<dbver, now, live, backups, temp, running, ncyc, certVars, renderVars>>

\* variant: the "if not is_valid: return" is missing
AfterValidate_noAbort(c) ==
    [Logged(c, "validate", IF c.verdict = "ok" THEN "ok" ELSE "fail") EXCEPT !.pc = "backup"]

\* apply_config after validate_config has returned (is_valid, validation_msg)
AfterValidate(c) ==
    IF c.verdict = "ok"
    THEN [Logged(c, "validate", "ok") EXCEPT !.pc = "backup"]
    ELSE Returned(Logged(c, "validate", "fail"), FALSE, "Validation failed: ")

\* validate_config returns (is_valid, message): True only from the
\* "returncode == 0" branch
ValidateReturned(c) == [c EXCEPT !.vout = "returned", !.vok = (c.verdict = "ok")]

\* an exception leaves validate_config
ValidateRaised(c) == [c EXCEPT !.vout = "raised"]

\* variant: the finally clause does not remove the file
RemoveIfExists_skip(t) == t

\* "if os.path.exists(temp_path): os.remove(temp_path)", os.remove succeeding
RemoveIfExists(t) == NoFile

\* validate_config's finally clause, then the return into apply_config
ValidateCleanup(p) ==
    /\ cyc[p].pc = "vclean"
    /\ \/ /\ temp' = RemoveIfExists(temp)
          /\ cyc' = [cyc EXCEPT ![p] = AfterValidate(ValidateReturned(@))]
       \/ \* os.remove raises: the exception leaves validate_config
          /\ temp # NoFile
          /\ temp' = temp
          /\ cyc' = [cyc EXCEPT ![p] = ExceptHandler(ValidateRaised(@), "validate")]
    /\ UNCHANGED <<dbver, now, live, backups, running, ncyc, certVars, renderVars>>

\* ticks in one second of the clock
TicksPerSecond == 2

\* variant: the file name carries the time to the tick
Timestamp_subsecond(t) == t

\* datetime.utcnow().strftime("%Y%m%d_%H%M%S"): the time cut to the second
Timestamp(t) == t \div TicksPerSecond

\* backup_dir after shutil.copy2(config_path, backup_path)
CopyTo(dir, ts, content) == [t \in DOMAIN dir \cup {ts} |-> IF t = ts THEN content ELSE dir[t]]

\* apply_config: "Backup current config"
Backup(p) ==
    /\ cyc[p].pc = "backup"
    /\ IF live = NoFile
       THEN /\ cyc' = [cyc EXCEPT ![p] = [Logged(@, "backup", "skip") EXCEPT !.pc = "write"]]
            /\ UNCHANGED backups
       ELSE \E o \in {"ok", "fails_before", "fails_during"} :
              /\ backups' = CASE o = "ok" -> CopyTo(backups, Timestamp(now), live)
                              [] o = "fails_before" -> backups
                              [] o = "fails_during" -> CopyTo(backups, Timestamp(now), Partial)
              /\ cyc' = [cyc EXCEPT ![p] =
                           IF o = "ok"
                           THEN [Logged(@, "backup", "ok") EXCEPT !.pc = "write"]
                           ELSE ExceptHandler(@, "backup")]
    /\ UNCHANGED <<dbver, now, live, temp, running, ncyc, certVars, renderVars>>

\* variant: a text rendered from an older snapshot does not replace a newer one
WrittenText_keepsNewer(text, current) ==
    IF Len(current) = 2 /\ current[1] = "text" /\ current[2] > text[2] THEN current ELSE text

\* the file after open(config_path, "w") and f.write(new_config): the new text,
\* whatever the file held
WrittenText(text, current) == text

\* apply_config: "Write new config" (makedirs, open(config_path, "w"), write)
Write(p) ==
    /\ cyc[p].pc = "write"
    /\ \E o \in {"ok", "makedirs_fails", "open_fails", "write_fails"} :
         /\ live' = CASE o = "ok" -> WrittenText(cyc[p].text, live)
                      [] o = "write_fails" -> Partial
                      [] OTHER -> live
         /\ cyc' = [cyc EXCEPT ![p] =
                      IF o = "ok"
                      THEN [Logged(@, "write", "ok") EXCEPT !.pc = "reload"]
                      ELSE ExceptHandler(@, "write")]
    /\ UNCHANGED <<dbver, now, backups, temp, running, ncyc, certVars, renderVars>>

\* variant: the return code of the reload is not looked at
reload_nginx_ignoresExit(o) == o \in {"zero", "nonzero"}

\* reload_nginx: the success flag for an outcome of subprocess.run(["nginx", "-s", "reload"])
reload_nginx(o) == o = "zero"

\* variant: a failed reload puts the previous text back
LiveAfterReload_restore(success, written, previous) ==
    IF success THEN written ELSE previous

\* the file at config_path after the reload step: neither branch touches it
LiveAfterReload(success, written, previous) == written

\* apply_config: "Reload Nginx" and the final return
Reload(p) ==
    /\ cyc[p].pc = "reload"
    /\ \E o \in {"zero", "nonzero", "timeout", "exception"} :
         /\ running' = IF o = "zero" THEN live ELSE running
         /\ live' = LiveAfterReload(reload_nginx(o), live, cyc[p].pre_live)
         /\ cyc' = [cyc EXCEPT ![p] =
                      LET c == [Logged(@, "reload", IF o = "zero" THEN "ok" ELSE "fail")
                                  EXCEPT !.reloads = @ + 1]
                      IN  IF reload_nginx(o)
                          THEN Returned(c, TRUE, "Configuration applied and Nginx reloaded")
                          ELSE Returned(c, FALSE, "Reload failed: ")]
    /\ UNCHANGED <<dbver, now, backups, temp, ncyc, certVars, renderVars>>

NextApply ==
    \/ Mutate
    \/ Tick
    \/ \E p \in Cycles : Start(p)
    \/ \E p \in Cycles : Render(p)
    \/ \E p \in Cycles : ValidateWrite(p)
    \/ \E p \in Cycles : ValidateRun(p)
    \/ \E p \in Cycles : ValidateCleanup(p)
    \/ \E p \in Cycles : Backup(p)
    \/ \E p \in Cycles : Write(p)
    \/ \E p \in Cycles : Reload(p)

\* one publish cycle at a time
SpecApply == InitApply /\ [][NextApply]_vars

\* two apply_config calls in progress at once (two requests in the threadpool),
\* each called once, over an existing live file
InitRace ==
    /\ CertOff
    /\ RenderOff
    /\ dbver = 0
    /\ now = 0
    /\ live = OldText
    /\ running = live
    /\ backups = <<>>
    /\ temp = NoFile
    /\ ncyc = 2
    /\ cyc = [p \in Cycles |-> IdleCycle]

\* the first call of apply_config by a request
StartOnce(p) == cyc[p].pc = "idle" /\ Start(p)

NextRace ==
    \/ Mutate
    \/ Tick
    \/ \E p \in Cycles : StartOnce(p)
    \/ \E p \in Cycles : Render(p)
    \/ \E p \in Cycles : ValidateWrite(p)
    \/ \E p \in Cycles : ValidateRun(p)
    \/ \E p \in Cycles : ValidateCleanup(p)
    \/ \E p \in Cycles : Backup(p)
    \/ \E p \in Cycles : Write(p)
    \/ \E p \in Cycles : Reload(p)

SpecRace == InitRace /\ [][NextRace]_vars

\* ------------------------------------------------------------------------
\* The REST layer: the handlers of api/v1/proxy_rules.py, api/v1/backends.py
\* and api/v1/config.py.  A handler is four steps: the dependencies and the
\* reads (403, 404, 409), the flush and commit, the call of apply_config
\* inside try/except, and the return of apply_config with the response.
\* apply_config itself is one step here; its stages are the subject of
\* SpecApply.  The audit_logs table is not part of the state.
\* ------------------------------------------------------------------------
\* frontend_domain values a request can carry (min_length = 5)
RestDomains == {D_aec, D_paec}

BackendNames == {"b1", "b2"}

\* ip and port of the backend a request names
BackendAddr(n) == IF n = "b1" THEN "10.0.0.1:8080" ELSE "10.0.0.2:9090"

\* an optional field of an update schema: <<>> when absent, <<v>> when given
Optional(S) == {<<>>} \cup {<<v>> : v \in S}

\* "if rule_update.field is not None"
IsNotNone(f) == f # <<>>

\* id given to an inserted row: INTEGER PRIMARY KEY without AUTOINCREMENT
NewId(tbl) == IF DOMAIN tbl = {} THEN 1 ELSE Max(DOMAIN tbl) + 1

\* tbl with row id inserted or replaced
Upsert(tbl, id, row) == [i \in DOMAIN tbl \cup {id} |-> IF i = id THEN row ELSE tbl[i]]

\* the row db.add(ProxyRule(...)) inserts: the constructor call does not pass
\* certificate_id; the columns not given take the schema's defaults
NewRule(sent) ==
    [frontend_domain |-> sent.frontend_domain, backend_id |-> sent.backend_id,
     certificate_id |-> NULL, ip_whitelist |-> TxtNull, is_active |-> TRUE,
     enable_hsts |-> FALSE, hsts_max_age |-> HstsMaxAge, custom_headers |-> TxtNull,
     rate_limit |-> TxtNull, ssl_enabled |-> TRUE, force_https |-> TRUE]

\* update_proxy_rule's assignments; certificate_id is not among them
UpdatedRule(row, sent) ==
    [row EXCEPT !.frontend_domain = IF IsNotNone(sent.frontend_domain)
                                    THEN sent.frontend_domain[1] ELSE @,
                !.is_active = IF IsNotNone(sent.is_active) THEN sent.is_active[1] ELSE @]

\* the row db.add(BackendServer(...)) inserts
NewBackend(sent) ==
    [name |-> sent.name, protocol |-> "http", addr |-> BackendAddr(sent.name),
     is_active |-> TRUE]

\* update_backend's assignments
UpdatedBackend(row, sent) ==
    [row EXCEPT !.name = IF IsNotNone(sent.name) THEN sent.name[1] ELSE @,
                !.is_active = IF IsNotNone(sent.is_active) THEN sent.is_active[1] ELSE @]

\* the "existing" query of create_proxy_rule and update_proxy_rule
ActiveRuleWithDomain(tbl, d, except) ==
    {i \in DOMAIN tbl \ {except} : tbl[i].frontend_domain = d /\ tbl[i].is_active}

\* the "existing" query of create_backend and update_backend
ActiveBackendWithName(tbl, n, except) ==
    {i \in DOMAIN tbl \ {except} : tbl[i].name = n /\ tbl[i].is_active}

\* variant: proxy_rules has no unique index on frontend_domain
UniqueDomains_noIndex(tbl) == TRUE

\* Column(frontend_domain, unique=True): what the index admits
UniqueDomains(tbl) ==
    \A i, j \in DOMAIN tbl : i # j => tbl[i].frontend_domain # tbl[j].frontend_domain

\* Column(name, unique=True) and UniqueConstraint("ip", "port")
UniqueBackends(tbl) ==
    \A i, j \in DOMAIN tbl : i # j => (tbl[i].name # tbl[j].name /\ tbl[i].addr # tbl[j].addr)

\* proxy_rules rows whose backend_id is b
RulesOfBackend(rtbl, b) == {r \in DOMAIN rtbl : rtbl[r].backend_id = b}

MutatingOps ==
    {"create_rule", "update_rule", "deactivate_rule", "delete_rule",
     "create_backend", "update_backend", "deactivate_backend", "delete_backend"}

\* the requests that reach the apply_config call
RestOps == MutatingOps \cup {"reload"}

\* status of the response to a handler that ran to its return statement
SuccessStatus(op) ==
    CASE op \in {"create_rule", "create_backend"} -> 201
      [] op \in {"update_rule", "update_backend", "reload"} -> 200
      [] OTHER -> 204

\* the response to a request refused before any write
Refused(op, role, code) == [op |-> op, role |-> role, status |-> code, trace |-> <<>>]

\* a request that passed the dependencies and the reads
Accepted(op, role, id, sent) ==
    [op |-> op, role |-> role, pc |-> "commit", id |-> id, sent |-> sent,
     stored |-> NULL, body |-> NULL, applied |-> FALSE, trace |-> <<>>]

\* the tables after the flush of request r, with ok = FALSE when the flush or
\* the commit raises (IntegrityError, StaleDataError) and nothing is written
Flushed(r) ==
    LET keep == [ok |-> FALSE, rules |-> rules, backends |-> backends]
        done(rt, bt) == [ok |-> TRUE, rules |-> rt, backends |-> bt]
    IN  CASE r.op = "create_rule" ->
               LET rt == Upsert(rules, NewId(rules), NewRule(r.sent))
               IN  IF UniqueDomains(rt) THEN done(rt, backends) ELSE keep
          [] r.op = "update_rule" ->
               IF r.id \notin DOMAIN rules THEN keep
               ELSE LET rt == [rules EXCEPT ![r.id] = UpdatedRule(@, r.sent)]
                    IN  IF UniqueDomains(rt) THEN done(rt, backends) ELSE keep
          [] r.op = "deactivate_rule" ->
               IF r.id \notin DOMAIN rules THEN keep
               ELSE done([rules EXCEPT ![r.id].is_active = FALSE], backends)
          [] r.op = "delete_rule" ->
               IF r.id \notin DOMAIN rules THEN keep
               ELSE done(RemoveRow(rules, r.id), backends)
          [] r.op = "create_backend" ->
               LET bt == Upsert(backends, NewId(backends), NewBackend(r.sent))
               IN  IF UniqueBackends(bt) THEN done(rules, bt) ELSE keep
          [] r.op = "update_backend" ->
               IF r.id \notin DOMAIN backends THEN keep
               ELSE LET bt == [backends EXCEPT ![r.id] = UpdatedBackend(@, r.sent)]
                    IN  IF UniqueBackends(bt) THEN done(rules, bt) ELSE keep
          [] r.op = "deactivate_backend" ->
               IF r.id \notin DOMAIN backends THEN keep
               ELSE done(rules, [backends EXCEPT ![r.id].is_active = FALSE])
          [] r.op = "delete_backend" ->
               \* the rows of BackendServer.proxy_rules would get backend_id = NULL,
               \* which the column does not admit
               IF r.id \notin DOMAIN backends \/ RulesOfBackend(rules, r.id) # {} THEN keep
               ELSE done(rules, RemoveRow(backends, r.id))

\* id of the row request r wrote
WrittenId(r) ==
    CASE r.op = "create_rule" -> NewId(rules)
      [] r.op = "create_backend" -> NewId(backends)
      [] OTHER -> r.id

\* variant: the hard delete of a rule returns without calling apply_config
AfterCommit_deleteSkipsApply(op) == IF op = "delete_rule" THEN "respond" ELSE "apply"

\* where a handler goes after db.commit(): each one calls apply_config next
AfterCommit(op) == "apply"

\* the variables a step of the dependencies and reads leaves alone
RestReadOnly == UNCHANGED <<certs, files, applyVars, renderVars>>

\* POST /proxy-rules up to the "existing" check
create_proxy_rule(w, role, d, cid) ==
    /\ req[w] = Idle
    /\ dbver < MaxDbVer
    /\ RestReadOnly
    /\ IF ~require_admin(role)
       THEN last' = Refused("create_rule", role, 403) /\ UNCHANGED req
       ELSE IF ActiveRuleWithDomain(rules, d, NULL) # {}
       THEN last' = Refused("create_rule", role, 409) /\ UNCHANGED req
       ELSE /\ req' = [req EXCEPT ![w] =
                         Accepted("create_rule", role, NULL,
                                  [frontend_domain |-> d, backend_id |-> 1,
                                   certificate_id |-> cid])]
            /\ last' = NoOp

\* PUT /proxy-rules/{rule_id} up to the "existing" check
update_proxy_rule(w, role, id, sent) ==
    /\ req[w] = Idle
    /\ dbver < MaxDbVer
    /\ RestReadOnly
    /\ IF ~require_admin(role)
       THEN last' = Refused("update_rule", role, 403) /\ UNCHANGED req
       ELSE IF id \notin DOMAIN rules
       THEN last' = Refused("update_rule", role, 404) /\ UNCHANGED req
       ELSE IF /\ IsNotNone(sent.frontend_domain)
               /\ sent.frontend_domain[1] # rules[id].frontend_domain
               /\ ActiveRuleWithDomain(rules, sent.frontend_domain[1], id) # {}
       THEN last' = Refused("update_rule", role, 409) /\ UNCHANGED req
       ELSE /\ req' = [req EXCEPT ![w] = Accepted("update_rule", role, id, sent)]
            /\ last' = NoOp

\* POST /proxy-rules/{rule_id}/deactivate up to the lookup
deactivate_proxy_rule(w, role, id) ==
    /\ req[w] = Idle
    /\ dbver < MaxDbVer
    /\ RestReadOnly
    /\ IF ~require_admin(role)
       THEN last' = Refused("deactivate_rule", role, 403) /\ UNCHANGED req
       ELSE IF id \notin DOMAIN rules
       THEN last' = Refused("deactivate_rule", role, 404) /\ UNCHANGED req
       ELSE /\ req' = [req EXCEPT ![w] = Accepted("deactivate_rule", role, id, <<>>)]
            /\ last' = NoOp

\* DELETE /proxy-rules/{rule_id} up to the lookup
delete_proxy_rule(w, role, id) ==
    /\ req[w] = Idle
    /\ dbver < MaxDbVer
    /\ RestReadOnly
    /\ IF ~require_admin(role)
       THEN last' = Refused("delete_rule", role, 403) /\ UNCHANGED req
       ELSE IF id \notin DOMAIN rules
       THEN last' = Refused("delete_rule", role, 404) /\ UNCHANGED req
       ELSE /\ req' = [req EXCEPT ![w] = Accepted("delete_rule", role, id, <<>>)]
            /\ last' = NoOp

\* POST /backends up to the "existing" check
create_backend(w, role, n) ==
    /\ req[w] = Idle
    /\ dbver < MaxDbVer
    /\ RestReadOnly
    /\ IF ~require_admin(role)
       THEN last' = Refused("create_backend", role, 403) /\ UNCHANGED req
       ELSE IF ActiveBackendWithName(backends, n, NULL) # {}
       THEN last' = Refused("create_backend", role, 409) /\ UNCHANGED req
       ELSE /\ req' = [req EXCEPT ![w] = Accepted("create_backend", role, NULL, [name |-> n])]
            /\ last' = NoOp

\* PUT /backends/{backend_id} up to the "existing" check
update_backend(w, role, id, sent) ==
    /\ req[w] = Idle
    /\ dbver < MaxDbVer
    /\ RestReadOnly
    /\ IF ~require_admin(role)
       THEN last' = Refused("update_backend", role, 403) /\ UNCHANGED req
       ELSE IF id \notin DOMAIN backends
       THEN last' = Refused("update_backend", role, 404) /\ UNCHANGED req
       ELSE IF /\ IsNotNone(sent.name)
               /\ sent.name[1] # backends[id].name
               /\ ActiveBackendWithName(backends, sent.name[1], id) # {}
       THEN last' = Refused("update_backend", role, 409) /\ UNCHANGED req
       ELSE /\ req' = [req EXCEPT ![w] = Accepted("update_backend", role, id, sent)]
            /\ last' = NoOp

\* POST /backends/{backend_id}/deactivate up to the lookup
deactivate_backend(w, role, id) ==
    /\ req[w] = Idle
    /\ dbver < MaxDbVer
    /\ RestReadOnly
    /\ IF ~require_admin(role)
       THEN last' = Refused("deactivate_backend", role, 403) /\ UNCHANGED req
       ELSE IF id \notin DOMAIN backends
       THEN last' = Refused("deactivate_backend", role, 404) /\ UNCHANGED req
       ELSE /\ req' = [req EXCEPT ![w] = Accepted("deactivate_backend", role, id, <<>>)]
            /\ last' = NoOp

\* DELETE /backends/{backend_id} up to the lookup
delete_backend(w, role, id) ==
    /\ req[w] = Idle
    /\ dbver < MaxDbVer
    /\ RestReadOnly
    /\ IF ~require_admin(role)
       THEN last' = Refused("delete_backend", role, 403) /\ UNCHANGED req
       ELSE IF id \notin DOMAIN backends
       THEN last' = Refused("delete_backend", role, 404) /\ UNCHANGED req
       ELSE /\ req' = [req EXCEPT ![w] = Accepted("delete_backend", role, id, <<>>)]
            /\ last' = NoOp

\* POST /proxy-rules/reload: the dependencies; the body is the apply_config call
proxy_rules_reload(w, role) ==
    /\ req[w] = Idle
    /\ RestReadOnly
    /\ IF ~require_admin(role)
       THEN last' = Refused("reload", role, 403) /\ UNCHANGED req
       ELSE /\ req' = [req EXCEPT ![w] =
                         [Accepted("reload", role, NULL, <<>>) EXCEPT !.pc = "apply"]]
            /\ last' = NoOp

\* POST /config/reload: the constructor and generator.reload_nginx()
config_reload(w, role) ==
    /\ req[w] = Idle
    /\ UNCHANGED <<certs, files, req, renderVars>>
    /\ UNCHANGED <<dbver, now, live, backups, temp, ncyc, cyc>>
    /\ IF ~require_admin(role)
       THEN last' = Refused("config_reload", role, 403) /\ UNCHANGED running
       ELSE \E o \in {"zero", "nonzero", "timeout", "exception", "constructor_raises"} :
              /\ running' = IF o = "zero" THEN live ELSE running
              /\ last' = [op |-> "config_reload", role |-> role,
                          status |-> IF reload_nginx(o) THEN 200 ELSE 500,
                          trace |-> IF o = "constructor_raises" THEN <<>> ELSE <<"reload">>]

\* the certificate_id the body of request r carried
Certificate(r) ==
    IF r.op \in {"create_rule", "update_rule"} THEN r.sent.certificate_id ELSE NULL

\* the handler's flush and db.commit(), then db.refresh of the row
db_commit(w) ==
    /\ req[w].op \in MutatingOps
    /\ req[w].pc = "commit"
    /\ dbver < MaxDbVer
    /\ UNCHANGED <<certs, files, settings, doc>>
    /\ UNCHANGED <<now, live, backups, temp, running, ncyc, cyc>>
    /\ LET r == req[w]
           f == Flushed(r)
           cert == IF r.op \in {"create_rule", "update_rule"}
                   THEN f.rules[WrittenId(r)].certificate_id ELSE NULL
       IN  IF ~f.ok
           THEN /\ last' = [Refused(r.op, r.role, 500) EXCEPT !.trace = <<"rollback">>]
                /\ req' = [req EXCEPT ![w] = Idle]
                /\ UNCHANGED <<rules, backends, dbver>>
           ELSE /\ rules' = f.rules
                /\ backends' = f.backends
                /\ dbver' = dbver + 1
                /\ req' = [req EXCEPT ![w] = [r EXCEPT !.pc = AfterCommit(r.op),
                                                      !.id = WrittenId(r),
                                                      !.sent = Certificate(r),
                                                      !.stored = cert,
                                                      !.body = cert,
                                                      !.trace = Append(@, "commit")]]
                /\ last' = NoOp

\* apply_config has been entered: its locals at the first statement
NewCycle == [IdleCycle EXCEPT !.pc = "render", !.pre_live = live, !.pre_backups = backups]

\* "generator = NginxConfigGenerator(); success, message = generator.apply_config(db)"
\* inside try: the constructor (os.makedirs of the backup directory) returns and
\* apply_config is entered, or it raises and the handler's except clause logs
apply_call(w) ==
    /\ req[w].op \in RestOps
    /\ req[w].pc = "apply"
    /\ UNCHANGED <<certs, files, renderVars>>
    /\ UNCHANGED <<dbver, now, live, backups, temp, running, ncyc>>
    /\ last' = NoOp
    /\ \/ /\ cyc' = [cyc EXCEPT ![w] = NewCycle]
          /\ req' = [req EXCEPT ![w] = [@ EXCEPT !.pc = "applying",
                                                 !.trace = Append(@, "apply")]]
       \/ /\ UNCHANGED cyc
          /\ req' = [req EXCEPT ![w] = [@ EXCEPT !.pc = "respond",
                                                 !.trace = Append(@, "constructor_raised")]]

\* apply_config renders the tables, runs its other stages and returns
\* (success, message); a failure is logged
apply_return(w) ==
    /\ req[w].op \in RestOps
    /\ req[w].pc = "applying"
    /\ cyc[w].pc = "render"
    /\ UNCHANGED <<certs, files, rules, backends, settings>>
    /\ UNCHANGED <<dbver, now, temp, ncyc>>
    /\ last' = NoOp
    /\ doc' = [rendered |-> TRUE, ok |-> generate_config(rules, Env).ok,
               blocks |-> generate_config(rules, Env).blocks]
    /\ \E o \in {"applied", "reload_failed", "aborted"} :
         /\ backups' = IF o = "aborted" \/ live = NoFile THEN backups
                       ELSE CopyTo(backups, Timestamp(now), live)
         /\ live' = IF o = "aborted" THEN live ELSE Text(dbver)
         /\ running' = IF o = "applied" THEN Text(dbver) ELSE running
         /\ cyc' = [cyc EXCEPT ![w] = IdleCycle]
         /\ req' = [req EXCEPT ![w] = [@ EXCEPT !.pc = "respond", !.applied = (o = "applied")]]

\* variant: a mutation whose apply cycle did not succeed answers 500
ResponseStatus_reportsFailure(op, applied) == IF applied THEN SuccessStatus(op) ELSE 500

\* the status a handler returns after its apply_config call: the mutating
\* handlers only log a failure, POST /proxy-rules/reload raises 500 on one
ResponseStatus(op, applied) == IF op = "reload" /\ ~applied THEN 500 ELSE SuccessStatus(op)

\* the handler returns: the response of a mutation does not depend on the
\* apply cycle, that of POST /proxy-rules/reload does
respond(w) ==
    /\ req[w].op \in RestOps
    /\ req[w].pc = "respond"
    /\ UNCHANGED <<certs, files, applyVars, renderVars>>
    /\ req' = [req EXCEPT ![w] = Idle]
    /\ LET r == req[w]
       IN  last' = [op |-> r.op, role |-> r.role,
                    status |-> ResponseStatus(r.op, r.applied), applied |-> r.applied,
                    id |-> r.id, sent |-> r.sent, stored |-> r.stored, body |-> r.body,
                    trace |-> Append(r.trace, "response")]

\* the update bodies the requests carry
RuleUpdates ==
    [frontend_domain : Optional(RestDomains), is_active : Optional(BOOLEAN),
     certificate_id : {NULL}]
    \cup [frontend_domain : {<<>>}, is_active : {<<>>}, certificate_id : {1, 2}]

BackendUpdates == [name : Optional({"b2"}), is_active : Optional(BOOLEAN)]

\* rows found in the tables when the service starts (inserted directly, as the
\* fixtures of tests/conftest.py and tests/test_integration.py do)
RestCertTables ==
    {<<>>,
     [c \in {1, 2} |-> [name |-> CertName(c), domain |-> D_aec, is_default |-> (c = 2)]]}

RestBackendTable == [b \in {1} |-> NewBackend([name |-> "b1"])]

RestRuleTables(ctbl) ==
    {<<>>} \cup
    {[r \in {1} |-> [NewRule([frontend_domain |-> D_aec, backend_id |-> 1])
                       EXCEPT !.certificate_id = c, !.is_active = a]] :
       c \in {NULL} \cup DOMAIN ctbl, a \in BOOLEAN}

\* the pipeline and the files before the first request
RestStart ==
    /\ settings = [enable_default_ssl_server |-> FALSE]
    /\ doc = NotRendered
    /\ req = [w \in Workers |-> Idle]
    /\ last = NoOp
    /\ dbver = 0
    /\ now = 0
    /\ live = NoFile
    /\ running = NoFile
    /\ backups = <<>>
    /\ temp = NoFile
    /\ cyc = [p \in Cycles |-> IdleCycle]

\* the rule and backend ids a request can name: the rows and one id without a row
RuleIdsNamed == DOMAIN rules \cup {NewId(rules)}

BackendIdsNamed == DOMAIN backends \cup {NewId(backends)}

\* rule requests and certificate deletions, one request at a time
InitRules ==
    /\ RestStart
    /\ ncyc = 1
    /\ certs \in RestCertTables
    /\ files = {certs[i].name : i \in DOMAIN certs}
    /\ backends = RestBackendTable
    /\ rules \in RestRuleTables(certs)

NextRules ==
    \/ \E w \in 1..ncyc, role \in Roles, d \in RestDomains, c \in {NULL, 1} :
         create_proxy_rule(w, role, d, c)
    \/ \E w \in 1..ncyc, role \in Roles, id \in RuleIdsNamed, u \in RuleUpdates :
         update_proxy_rule(w, role, id, u)
    \/ \E w \in 1..ncyc, role \in Roles, id \in RuleIdsNamed : deactivate_proxy_rule(w, role, id)
    \/ \E w \in 1..ncyc, role \in Roles, id \in RuleIdsNamed : delete_proxy_rule(w, role, id)
    \/ \E w \in 1..ncyc : db_commit(w)
    \/ \E w \in 1..ncyc : apply_call(w)
    \/ \E w \in 1..ncyc : apply_return(w)
    \/ \E w \in 1..ncyc : respond(w)
    \/ \E w \in 1..ncyc, role \in Roles, c \in CertIds : DeleteLookup(w, role, c)
    \/ \E w \in 1..ncyc : delete_certificate(w)

SpecRules == InitRules /\ [][NextRules]_vars

\* every handler that writes or reloads, one request at a time
InitRest ==
    /\ RestStart
    /\ ncyc = 1
    /\ certs = <<>>
    /\ files = {}
    /\ backends = RestBackendTable
    /\ rules \in RestRuleTables(certs)

NextRest ==
    \/ \E w \in 1..ncyc, role \in Roles, d \in RestDomains :
         create_proxy_rule(w, role, d, NULL)
    \/ \E w \in 1..ncyc, role \in Roles, id \in RuleIdsNamed, u \in RuleUpdates :
         update_proxy_rule(w, role, id, u)
    \/ \E w \in 1..ncyc, role \in Roles, id \in RuleIdsNamed : deactivate_proxy_rule(w, role, id)
    \/ \E w \in 1..ncyc, role \in Roles, id \in RuleIdsNamed : delete_proxy_rule(w, role, id)
    \/ \E w \in 1..ncyc, role \in Roles, n \in BackendNames : create_backend(w, role, n)
    \/ \E w \in 1..ncyc, role \in Roles, id \in BackendIdsNamed, u \in BackendUpdates :
         update_backend(w, role, id, u)
    \/ \E w \in 1..ncyc, role \in Roles, id \in BackendIdsNamed : deactivate_backend(w, role, id)
    \/ \E w \in 1..ncyc, role \in Roles, id \in BackendIdsNamed : delete_backend(w, role, id)
    \/ \E w \in 1..ncyc, role \in Roles : proxy_rules_reload(w, role)
    \/ \E w \in 1..ncyc, role \in Roles : config_reload(w, role)
    \/ \E w \in 1..ncyc : db_commit(w)
    \/ \E w \in 1..ncyc : apply_call(w)
    \/ \E w \in 1..ncyc : apply_return(w)
    \/ \E w \in 1..ncyc : respond(w)
    \/ \E w \in 1..ncyc, role \in Roles : UploadCheck(w, role, CertName(2), D_wec, TRUE)
    \/ \E w \in 1..ncyc : UploadInvalid(w)
    \/ \E w \in 1..ncyc : create_certificate(w)
    \/ \E w \in 1..ncyc, role \in Roles, c \in CertIds : SetDefaultLookup(w, role, c)
    \/ \E w \in 1..ncyc : set_default_certificate(w)
    \/ \E w \in 1..ncyc, role \in Roles, c \in CertIds : DeleteLookup(w, role, c)
    \/ \E w \in 1..ncyc : delete_certificate(w)



SpecRest == InitRest /\ [][NextRest]_vars

\* ------------------------------------------------------------------------
\* Properties of apply_config (checked under SpecApply)
\* ------------------------------------------------------------------------
HasLog(c, stage, res) == \E k \in 1..Len(c.log) : c.log[k] = <<stage, res>>

Finished(c) == c.pc = "done"

\* C1: when validation fails inside apply_config, the live config file and the
\* set and contents of the backup files are the same after the call as before it
C1_ValidationFailureTouchesNothing ==
    \A p \in Cycles :
        HasLog(cyc[p], "validate", "fail") =>
            /\ live = cyc[p].pre_live
            /\ backups = cyc[p].pre_backups

\* a call that ended in a validation failure, with a live file and a backup present
C1_Witness ==
    \E p \in Cycles :
        /\ Finished(cyc[p])
        /\ cyc[p].msg = "Validation failed: "
        /\ cyc[p].verdict = "invalid"
        /\ live # NoFile
        /\ DOMAIN backups # {}

\* C2: when validation succeeds and the backup or the write then fails, reload_nginx
\* is not invoked in that cycle and apply_config returns a failure result
C2_NoReloadAfterBackupOrWriteFailure ==
    \A p \in Cycles :
        (HasLog(cyc[p], "validate", "ok")
           /\ (HasLog(cyc[p], "backup", "fail") \/ HasLog(cyc[p], "write", "fail"))) =>
            /\ cyc[p].reloads = 0
            /\ Finished(cyc[p])
            /\ cyc[p].outcome = "returned"
            /\ ~cyc[p].ok

\* a call whose write failed after a successful validation and backup
C2_Witness ==
    \E p \in Cycles :
        /\ Finished(cyc[p])
        /\ HasLog(cyc[p], "validate", "ok")
        /\ HasLog(cyc[p], "backup", "ok")
        /\ HasLog(cyc[p], "write", "fail")
        /\ live = Partial

AllStagesSucceeded(c) ==
    \/ c.log = << <<"render", "ok">>, <<"validate", "ok">>, <<"backup", "ok">>,
                  <<"write", "ok">>, <<"reload", "ok">> >>
    \/ c.log = << <<"render", "ok">>, <<"validate", "ok">>, <<"backup", "skip">>,
                  <<"write", "ok">>, <<"reload", "ok">> >>

\* C3: apply_config never raises: whatever the outcome of render, validate, backup,
\* write and reload, it returns (success, message), with success only when every
\* stage succeeded
C3_AlwaysReturnsPair ==
    \A p \in Cycles :
        /\ cyc[p].outcome # "raised"
        /\ Finished(cyc[p]) =>
              /\ cyc[p].outcome = "returned"
              /\ cyc[p].ok \in BOOLEAN
              /\ cyc[p].msg # ""
              /\ cyc[p].ok => AllStagesSucceeded(cyc[p])

\* a call that returned success after taking a backup, and the proxy reloaded
C3_Witness ==
    \E p \in Cycles :
        /\ Finished(cyc[p])
        /\ cyc[p].ok
        /\ HasLog(cyc[p], "backup", "ok")
        /\ running = cyc[p].text

\* ------------------------------------------------------------------------
\* Properties of the resolver and of the default flag
\* ------------------------------------------------------------------------
Resolved == last.op = "resolve"

\* C4: a rule whose certificate_id references an existing certificate resolves to
\* exactly that certificate, whatever exact-domain, wildcard or default rows exist
C4_ExplicitCertificateWins ==
    (Resolved /\ last.cid \in DOMAIN certs) => last.result = last.cid

\* the explicit certificate was returned although another row has the rule's
\* host name as its domain and a third is the default
C4_Witness ==
    /\ Resolved
    /\ last.cid \in DOMAIN certs
    /\ last.result = last.cid
    /\ \E j \in DOMAIN certs \ {last.cid} : certs[j].domain = last.host
    /\ \E j \in DOMAIN certs \ {last.cid} : certs[j].is_default

\* d is "*." followed by host without its leftmost label
IsWildcardOf(d, host) ==
    \E k \in 1..Len(host) :
        /\ host[k] = "."
        /\ \A j \in 1..(k - 1) : host[j] # "."
        /\ d = <<"*", ".">> \o SubSeq(host, k + 1, Len(host))

\* C5: a rule with no certificate_id resolves to the first that exists of the
\* exact-domain certificate, the one-level wildcard certificate and the default
\* certificate, and to no certificate when there is none of the three
C5_ResolutionOrder ==
    (Resolved /\ last.cid = NULL) =>
        LET exact == {i \in DOMAIN certs : certs[i].domain = last.host}
            wild == {i \in DOMAIN certs : IsWildcardOf(certs[i].domain, last.host)}
            dflt == {i \in DOMAIN certs : certs[i].is_default}
        IN  IF exact # {} THEN last.result \in exact
            ELSE IF wild # {} THEN last.result \in wild
            ELSE IF dflt # {} THEN last.result \in dflt
            ELSE last.result = NULL

\* the wildcard certificate was returned while a different certificate is the default
C5_Witness ==
    /\ Resolved
    /\ last.cid = NULL
    /\ last.result \in DOMAIN certs
    /\ IsWildcardOf(certs[last.result].domain, last.host)
    /\ ~certs[last.result].is_default
    /\ \E j \in DOMAIN certs : certs[j].is_default

SetDefaultDone == last.op = "set_default" /\ last.status = 200

\* C6: after set_default_certificate(cert_id) succeeds, exactly one certificate
\* has is_default = true and it is cert_id, however many had the flag before
C6_ExactlyOneDefaultAfterSet ==
    SetDefaultDone => Defaults(certs) = {last.id}

\* the call succeeded on a table in which several rows carried the flag
C6_Witness ==
    /\ SetDefaultDone
    /\ last.before >= 2
    /\ Defaults(certs) = {last.id}

\* C7: in every reachable state at most one certificate row has is_default = true
C7_AtMostOneDefault ==
    Cardinality(Defaults(certs)) <= 1

\* an upload with is_default = true has just replaced another default certificate
C7_Witness ==
    /\ last.op = "upload"
    /\ last.status = 201
    /\ Cardinality(DOMAIN certs) >= 2
    /\ Defaults(certs) = {last.id}
    /\ \E w \in Workers : req[w].op = "set_default"

\* ------------------------------------------------------------------------
\* Properties of the rendered document (checked under SpecRender)
\* ------------------------------------------------------------------------
\* the server blocks of the rule with this host name
BlocksOf(host) ==
    {k \in 1..Len(doc.blocks) :
        /\ doc.blocks[k].kind = "rule"
        /\ \E n \in 1..Len(doc.blocks[k].lines) : doc.blocks[k].lines[n] = <<"server_name", host>>}

Directives(b, names) == SelectSeq(b.lines, LAMBDA l : l[1] \in names)

IsStsHeader(l) == l[1] = "add_header" /\ l[2] = STS

StsHeaders(b) == SelectSeq(b.lines, IsStsHeader)

Rendered == doc.rendered /\ doc.ok

\* the (name, value) pairs a rule's custom_headers text lists
ListedHeaders(rule) ==
    IF rule.custom_headers.kind = "object" THEN rule.custom_headers.items ELSE <<>>

IsStsPair(h) == h[1] = STS

\* the original statement of C8: the server block of an active rule with
\* ssl_enabled = false has no Strict-Transport-Security header at all
C8_Original ==
    Rendered =>
        \A i \in ActiveRules(rules) :
            ~rules[i].ssl_enabled =>
                \A k \in BlocksOf(rules[i].frontend_domain) :
                    /\ StsHeaders(doc.blocks[k]) = <<>>
                    /\ Directives(doc.blocks[k], {"ssl_certificate", "ssl_certificate_key"}) = <<>>
                    /\ Directives(doc.blocks[k], {"listen"}) = << <<"listen", "80">> >>

\* C8: the server block of an active rule with ssl_enabled = false listens on
\* port 80, has no ssl_certificate or ssl_certificate_key directive, and has no
\* Strict-Transport-Security header other than those its custom_headers lists,
\* whatever enable_hsts, force_https and certificate_id are
C8_NoHstsNoCertificateWithoutSsl ==
    Rendered =>
        \A i \in ActiveRules(rules) :
            ~rules[i].ssl_enabled =>
                /\ Cardinality(BlocksOf(rules[i].frontend_domain)) = 1
                /\ \A k \in BlocksOf(rules[i].frontend_domain) :
                    /\ Len(StsHeaders(doc.blocks[k]))
                         = Len(SelectSeq(ListedHeaders(rules[i]), IsStsPair))
                    /\ Directives(doc.blocks[k], {"ssl_certificate", "ssl_certificate_key"}) = <<>>
                    /\ Directives(doc.blocks[k], {"listen"}) = << <<"listen", "80">> >>

\* a rendered rule without SSL whose HSTS and redirect flags are set and which
\* names a certificate, next to a rule with SSL
C8_Witness ==
    /\ Rendered
    /\ \E i \in ActiveRules(rules) :
         /\ ~rules[i].ssl_enabled
         /\ rules[i].enable_hsts
         /\ rules[i].force_https
         /\ rules[i].certificate_id \in DOMAIN certs
         /\ BlocksOf(rules[i].frontend_domain) # {}
    /\ \E j \in ActiveRules(rules) : rules[j].ssl_enabled

\* the entries of the allow-list a rule's ip_whitelist text denotes
AllowList(rule) ==
    IF rule.ip_whitelist.kind = "array" THEN rule.ip_whitelist.items ELSE <<>>

IsListOrAbsent(rule) == rule.ip_whitelist.kind \in {"array", "null", "empty"}

\* C9: the server block of an active rule with a non-empty allow-list has one
\* allow line per entry, in list order, then one deny all; with an empty or
\* absent list it has no allow and no deny line; and no block carries allow
\* lines of another rule
C9_AllowListBlock ==
    Rendered =>
        \A i \in ActiveRules(rules) :
            /\ Cardinality(BlocksOf(rules[i].frontend_domain)) = 1
            /\ \A k \in BlocksOf(rules[i].frontend_domain) :
                 /\ IsListOrAbsent(rules[i]) =>
                      Directives(doc.blocks[k], {"allow", "deny"})
                        = IF AllowList(rules[i]) = <<>> THEN <<>>
                          ELSE [n \in 1..Len(AllowList(rules[i])) |-> <<"allow", AllowList(rules[i])[n]>>]
                               \o << <<"deny", "all">> >>
                 /\ \A j \in ActiveRules(rules) \ {i} :
                      \A n \in 1..Len(AllowList(rules[j])) :
                          (\E m \in 1..Len(doc.blocks[k].lines) :
                              doc.blocks[k].lines[m] = <<"allow", AllowList(rules[j])[n]>>)
                          => \E q \in 1..Len(AllowList(rules[i])) :
                                 AllowList(rules[i])[q] = AllowList(rules[j])[n]

\* two rendered rules with different non-empty allow-lists
C9_Witness ==
    /\ Rendered
    /\ \E i, j \in ActiveRules(rules) :
         /\ i # j
         /\ Len(AllowList(rules[i])) = 2
         /\ Len(AllowList(rules[j])) = 1
         /\ \A k \in BlocksOf(rules[i].frontend_domain) :
              Len(Directives(doc.blocks[k], {"allow", "deny"})) = 3

\* C10: the ssl_certificate and ssl_certificate_key paths in the server block of
\* an active rule with ssl_enabled = true are those of the certificate the
\* resolver selects for the rule, and the global default paths only when the
\* resolver selects none
C10_ResolvedCertificatePaths ==
    Rendered =>
        \A i \in ActiveRules(rules) :
            rules[i].ssl_enabled =>
                \A k \in BlocksOf(rules[i].frontend_domain) :
                    \E c \in get_certificate_for_rule(certs, rules[i].frontend_domain,
                                                      rules[i].certificate_id) :
                        Directives(doc.blocks[k], {"ssl_certificate", "ssl_certificate_key"})
                          = IF c = NULL
                            THEN << <<"ssl_certificate", DefaultCertPath>>,
                                    <<"ssl_certificate_key", DefaultKeyPath>> >>
                            ELSE << <<"ssl_certificate", CertPath(certs[c].name)>>,
                                    <<"ssl_certificate_key", KeyPath(certs[c].name)>> >>

\* ------------------------------------------------------------------------
\* Properties of validate_config and of the reload step (checked under SpecApply)
\* ------------------------------------------------------------------------
\* C13: validate_config returns (true, message) exactly when the syntax check of
\* the proxy binary exits with code zero; in every other case (binary not found,
\* nonzero exit, timeout, error writing the temporary file) it returns
\* (false, message), and it never raises
C13_ValidateNeverRaises ==
    \A p \in Cycles :
        /\ cyc[p].vout # "raised"
        /\ cyc[p].vout = "returned" => (cyc[p].vok <=> cyc[p].exit = "zero")

\* C14: whenever validate_config has returned, whatever its outcome, the
\* throwaway file at <config_path>.test that it wrote no longer exists
C14_TempFileRemovedOnReturn ==
    \A p \in Cycles :
        cyc[p].vout = "returned" => temp = NoFile

\* validate_config wrote the file, the binary timed out on it, and the call returned
C14_Witness ==
    \E p \in Cycles :
        /\ cyc[p].vout = "returned"
        /\ cyc[p].verdict = "timeout"
        /\ cyc[p].checked = cyc[p].text
        /\ cyc[p].checked # NoFile
        /\ temp = NoFile

\* C15: when the reload fails after the write step, apply_config returns failure
\* with a message beginning "Reload failed: " and the live config file keeps the
\* newly written text: it is not restored from the backup
C15_ReloadFailureKeepsNewText ==
    \A p \in Cycles :
        HasLog(cyc[p], "reload", "fail") =>
            /\ Finished(cyc[p])
            /\ cyc[p].outcome = "returned"
            /\ ~cyc[p].ok
            /\ cyc[p].msg = "Reload failed: "
            /\ live = cyc[p].text

\* a call whose reload failed after it had backed up and replaced an existing file:
\* the proxy still runs the previous text
C15_Witness ==
    \E p \in Cycles :
        /\ Finished(cyc[p])
        /\ HasLog(cyc[p], "backup", "ok")
        /\ HasLog(cyc[p], "write", "ok")
        /\ HasLog(cyc[p], "reload", "fail")
        /\ cyc[p].pre_live = OldText
        /\ live # cyc[p].pre_live
        /\ running = OldText

\* ------------------------------------------------------------------------
\* Further properties of get_certificate_for_rule (checked under SpecTable)
\* ------------------------------------------------------------------------
\* d is "*." followed by host without its two or more leftmost labels
IsOuterWildcardOf(d, host) ==
    \E k \in 1..Len(host) :
        /\ host[k] = "."
        /\ \E j \in 1..(k - 1) : host[j] = "."
        /\ d = <<"*", ".">> \o SubSeq(host, k + 1, Len(host))

\* C16: the wildcard step strips exactly one leftmost label: for a rule with no
\* certificate_id, a certificate whose domain is "*." followed by the host name
\* without two or more of its leftmost labels (*.example.com for
\* app.v2.example.com) is returned only if it is the default certificate
C16_WildcardStripsOneLabel ==
    (Resolved /\ last.cid = NULL /\ last.result \in DOMAIN certs
        /\ IsOuterWildcardOf(certs[last.result].domain, last.host)) =>
            certs[last.result].is_default

\* p.a.e.c resolved to the default certificate, whose domain is *.e.c
C16_Witness ==
    /\ Resolved
    /\ last.cid = NULL
    /\ last.host = D_paec
    /\ last.result \in DOMAIN certs
    /\ certs[last.result].domain = D_wec
    /\ certs[last.result].is_default
    /\ IsOuterWildcardOf(D_wec, D_paec)

\* C17: when a rule's certificate_id is set but no certificate has that id,
\* get_certificate_for_rule continues with the exact-domain, wildcard and default
\* steps, and returns no certificate only if those also find nothing
C17_MissingExplicitFallsThrough ==
    (Resolved /\ last.cid # NULL /\ last.cid \notin DOMAIN certs) =>
        LET exact == {i \in DOMAIN certs : certs[i].domain = last.host}
            wild == {i \in DOMAIN certs : IsWildcardOf(certs[i].domain, last.host)}
            dflt == {i \in DOMAIN certs : certs[i].is_default}
        IN  IF exact # {} THEN last.result \in exact
            ELSE IF wild # {} THEN last.result \in wild
            ELSE IF dflt # {} THEN last.result \in dflt
            ELSE last.result = NULL

\* ------------------------------------------------------------------------
\* Properties of the REST handlers (checked under SpecRules and SpecRest)
\* ------------------------------------------------------------------------

\* status of the last response, 0 when the last step sent none
Status(l) == IF "status" \in DOMAIN l THEN l.status ELSE 0

\* no two active rows of a rule table share a frontend_domain
NoActivePair(tbl) ==
    \A a, b \in DOMAIN tbl :
        (a # b /\ tbl[a].is_active /\ tbl[b].is_active)
            => tbl[a].frontend_domain # tbl[b].frontend_domain

\* the rule table request r asks for, before any constraint of the table is applied
RequestedRules(r) ==
    CASE r.op = "create_rule" -> Upsert(rules, NewId(rules), NewRule(r.sent))
      [] r.op = "update_rule" /\ r.id \in DOMAIN rules ->
            [rules EXCEPT ![r.id] = UpdatedRule(@, r.sent)]
      [] OTHER -> rules

\* C11: at every moment no two active rules share a frontend_domain; a create
\* or update request that gets past the handler's checks never asks for such a
\* pair, and the step that answers 409 changes no table, file or request
C11_ActiveDomainsUnique ==
    /\ [](/\ NoActivePair(rules)
          /\ \A w \in Workers :
                (req[w].op \in {"create_rule", "update_rule"} /\ req[w].pc = "commit")
                    => NoActivePair(RequestedRules(req[w])))
    /\ [][Status(last') = 409 => UNCHANGED <<certs, files, req, applyVars, renderVars>>]_vars

C11_Witness ==
    /\ last.op \in {"create_rule", "update_rule"}
    /\ Status(last) = 409
    /\ \E a \in DOMAIN rules : rules[a].is_active
    /\ dbver > 0

\* C12: a rule created with certificate_id = c is stored with certificate_id = c
\* and the 201 response shows c; a rule created without the field has null in
\* both places
C12_CreateStoresCertificateId ==
    (last.op = "create_rule" /\ Status(last) = 201)
        => /\ last.stored = last.sent
           /\ last.body = last.sent
           /\ last.id \in DOMAIN rules => rules[last.id].certificate_id = last.sent

\* C18: in every reachable state every rule whose certificate_id is set
\* references a certificate row that exists, also after a certificate that
\* rules reference has been deleted
C18_CertificateReferencesExist ==
    \A r \in DOMAIN rules :
        rules[r].certificate_id # NULL => rules[r].certificate_id \in DOMAIN certs

C18_Witness ==
    /\ last.op = "delete"
    /\ Status(last) = 204
    /\ last.referenced # {}
    /\ \A r \in last.referenced : r \in DOMAIN rules /\ rules[r].certificate_id = NULL

\* the last step returned the success response of a backend or rule mutation
MutationSucceeded == last.op \in MutatingOps /\ Status(last) = SuccessStatus(last.op)

AnsweredNonAdmin(l) == "role" \in DOMAIN l /\ l.role # "admin"

\* C20: a write, set-default or reload request of an authenticated user whose
\* role is not admin is answered 403 and never gets past the dependency; the
\* step that answers it changes no row, file or request in progress and starts
\* no apply cycle or reload
C20_NonAdminRejected ==
    /\ [](/\ AnsweredNonAdmin(last) => Status(last) = 403
          /\ \A w \in Workers : req[w] # Idle => req[w].role = "admin")
    /\ [][AnsweredNonAdmin(last')
            => UNCHANGED <<certs, files, req, applyVars, renderVars>>]_vars

C20_Witness ==
    /\ AnsweredNonAdmin(last)
    /\ Status(last) = 403
    /\ last.op = "config_reload"
    /\ rules # <<>>
    /\ certs # <<>>
    /\ live # NoFile

\* ------------------------------------------------------------------------
\* Order of the stages of apply_config and its failure messages
\* ------------------------------------------------------------------------
StageOrder == <<"render", "validate", "backup", "write", "reload">>

\* C21: in every run of apply_config the stages occur in the order render,
\* validate, backup, write, reload; the backup stage copies only when a live
\* config file exists; a failed stage is the last stage of its run
C21_StagesInOrder ==
    \A p \in Cycles :
        LET l == cyc[p].log
        IN  /\ Len(l) <= Len(StageOrder)
            /\ \A k \in 1..Len(l) :
                  /\ l[k][1] = StageOrder[k]
                  /\ l[k][2] = "fail" => (k = Len(l) /\ Finished(cyc[p]))
                  /\ l[k][1] = "backup" => (l[k][2] = "skip" <=> cyc[p].pre_live = NoFile)
            /\ cyc[p].reloads > 0 => HasLog(cyc[p], "write", "ok")
            /\ (Finished(cyc[p]) /\ Len(l) < Len(StageOrder)) => l[Len(l)][2] = "fail"

\* a run that went through the five stages, with a backup taken and the reload failing
C21_Witness ==
    \E p \in Cycles :
        /\ Finished(cyc[p])
        /\ Len(cyc[p].log) = Len(StageOrder)
        /\ HasLog(cyc[p], "backup", "ok")
        /\ HasLog(cyc[p], "reload", "fail")

\* apply_config returned (False, message)
ReturnedFailure(c) == Finished(c) /\ c.outcome = "returned" /\ ~c.ok

\* the stage that failed in a cycle that returned failure
FailedStage(c) == c.log[Len(c.log)][1]

\* C22: whenever apply_config returns failure its message begins with a prefix
\* that names the failed stage: two failures in different stages never carry
\* the same prefix
C22_PrefixNamesStage ==
    \A p, q \in Cycles :
        (ReturnedFailure(cyc[p]) /\ ReturnedFailure(cyc[q])
           /\ FailedStage(cyc[p]) # FailedStage(cyc[q]))
            => cyc[p].msg # cyc[q].msg

\* C23: the backup step leaves the live config as it was, and when the write
\* step that follows fails (creating directories, opening the file or writing)
\* the live config path still holds the complete prior text
C23_WriteFailureKeepsPriorText ==
    \A p \in Cycles :
        /\ (cyc[p].pc = "write" /\ HasLog(cyc[p], "backup", "ok")) => live = cyc[p].pre_live
        /\ HasLog(cyc[p], "write", "fail") => live = cyc[p].pre_live

\* ------------------------------------------------------------------------
\* Two publish cycles at once (checked under SpecRace)
\* ------------------------------------------------------------------------
\* C24: when two publish cycles run concurrently, a cycle's write replaces
\* whatever the live file holds with its own text, also when that text was
\* rendered from the older snapshot; both cycles can return success, each
\* with the ordinary success message, and the live file then holds the text
\* of one of them
C24_LastWriteWins ==
    /\ [](\A p, q \in Cycles :
            (p # q /\ Finished(cyc[p]) /\ cyc[p].ok /\ Finished(cyc[q]) /\ cyc[q].ok)
                => /\ live \in {cyc[p].text, cyc[q].text}
                   /\ cyc[p].msg = "Configuration applied and Nginx reloaded"
                   /\ cyc[q].msg = cyc[p].msg)
    /\ [][\A p \in Cycles :
            (cyc[p].pc = "write" /\ cyc'[p].pc = "reload") => live' = cyc[p].text]_vars

\* both cycles returned success; cycle 2 rendered the newer snapshot and the
\* live file and the running proxy have the text of the older one
C24_Witness ==
    /\ Finished(cyc[1]) /\ cyc[1].ok
    /\ Finished(cyc[2]) /\ cyc[2].ok
    /\ cyc[1].text = Text(0)
    /\ cyc[2].text = Text(1)
    /\ dbver = 1
    /\ live = Text(0)
    /\ running = Text(0)

\* C25: overlapping validate_config calls use the one temp path: the binary
\* checks what the file holds when it runs, which can be the other validator's
\* text, and the validator returns that verdict as the verdict on its own
\* text, so a cycle can write a text that was never checked
C25_SharedTempPath ==
    /\ [](\A p \in Cycles :
            /\ cyc[p].vout = "returned" => (cyc[p].vok <=> cyc[p].exit = "zero")
            /\ HasLog(cyc[p], "validate", "ok") => cyc[p].checked # NoFile)
    /\ [][\A p \in Cycles :
            (cyc[p].pc = "vrun" /\ cyc'[p].pc = "vclean" /\ cyc'[p].exit # "notfound")
                => cyc'[p].checked = temp]_vars

\* cycle 1 wrote its text to the live file on the verdict the binary gave on
\* the text of cycle 2
C25_Witness ==
    /\ cyc[1].text = Text(0)
    /\ cyc[2].text = Text(1)
    /\ cyc[1].checked = Text(1)
    /\ cyc[1].vout = "returned"
    /\ cyc[1].vok
    /\ HasLog(cyc[1], "write", "ok")
    /\ live = Text(0)

\* C26: when the apply cycle started by a backend or rule mutation fails, or
\* the call raises, the committed change stays in the tables, apply_config is
\* not called again and the request returns its normal success response
C26_ApplyFailureKeepsCommit ==
    /\ []((MutationSucceeded /\ ~last.applied)
            => last.trace \in {<<"commit", "apply", "response">>,
                               <<"commit", "constructor_raised", "response">>})
    /\ [][\A w \in Workers :
            (req[w].op \in MutatingOps /\ req[w].pc \in {"apply", "applying", "respond"}
               /\ req'[w] # req[w])
                => /\ UNCHANGED <<rules, backends, dbver>>
                   /\ req[w].pc = "respond"
                        => /\ Status(last') = SuccessStatus(req[w].op)
                           /\ req'[w] = Idle]_vars

\* a rule was created and answered 201 although its apply cycle failed: the
\* row is in the table and the proxy does not run the text of this state
C26_Witness ==
    /\ MutationSucceeded
    /\ last.op = "create_rule"
    /\ ~last.applied
    /\ last.trace = <<"commit", "apply", "response">>
    /\ last.id \in DOMAIN rules
    /\ running # Text(dbver)
    /\ live # Text(dbver)

\* C27: two publish cycles that reach the backup step within the same UTC
\* second compute the same backup file name, so the later copy replaces the
\* earlier one: a copy made in a second that already has a backup adds no
\* file, and there is at most one backup file per second
C27_OneBackupPerSecond ==
    /\ [](Cardinality(DOMAIN backups) <= (now \div TicksPerSecond) + 1)
    /\ [][\A p \in Cycles :
            (cyc[p].pc = "backup" /\ cyc'[p].pc = "write" /\ live # NoFile)
                => /\ DOMAIN backups' = DOMAIN backups \cup {now \div TicksPerSecond}
                   /\ backups'[now \div TicksPerSecond] = live]_vars

\* both cycles took their backup in second 0, at different ticks; the one file
\* holds what the first cycle wrote, and the copy of the text before it is gone
C27_Witness ==
    /\ HasLog(cyc[1], "backup", "ok")
    /\ HasLog(cyc[2], "backup", "ok")
    /\ now = 1
    /\ DOMAIN backups = {0}
    /\ backups[0] # OldText
    /\ backups[0] = cyc[1].text
    /\ cyc[2].pc = "write"

\* ------------------------------------------------------------------------
\* Deleting a certificate
\* ------------------------------------------------------------------------
\* C28: DELETE /certificates/{cert_id} answered 204 has removed the row with id
\* cert_id and its files, and no other row or file, also when another
\* certificate has the same domain
C28_DeleteRemovesNamedRow ==
    (last.op = "delete" /\ Status(last) = 204)
        => /\ last.row = last.id
           /\ last.id \notin DOMAIN certs
           /\ \A i \in DOMAIN certs : certs[i].name \in files

\* ------------------------------------------------------------------------
\* The document rendered from the tables the requests leave
\* ------------------------------------------------------------------------
\* the upstream names a document defines
UpstreamsOf(d) ==
    {d.blocks[k].lines[1][2] : k \in {j \in 1..Len(d.blocks) : d.blocks[j].kind = "upstream"}}

\* the upstream names the proxy_pass lines of a document's rule blocks use
ProxyTargetsOf(d) ==
    UNION {{d.blocks[k].lines[n][3] :
              n \in {m \in 1..Len(d.blocks[k].lines) : d.blocks[k].lines[m][1] = "proxy_pass"}} :
           k \in {j \in 1..Len(d.blocks) : d.blocks[j].kind = "rule"}}

\* C29: in every document rendered after a sequence of backend and rule
\* requests, the backend_<id> of each rule block's proxy_pass has an
\* "upstream backend_<id>" block in the same document
C29_ProxyPassHasUpstream ==
    (doc.rendered /\ doc.ok) => ProxyTargetsOf(doc) \subseteq UpstreamsOf(doc)

\* active rules whose ip_whitelist is a non-empty text that is not JSON
UnparseableWhitelist ==
    {i \in ActiveRules(rules) :
        Truthy(rules[i].ip_whitelist) /\ ~json_loads(rules[i].ip_whitelist).ok}

\* C30: a rule whose stored ip_whitelist is non-empty and not parseable as JSON
\* does not make the rendering fail, and its server block has no allow and no
\* deny line
C30_UnparseableWhitelistIsOpen ==
    doc.rendered =>
        \A i \in UnparseableWhitelist :
            /\ ~RuleRaises(rules[i])
            /\ doc.ok \/ \E j \in ActiveRules(rules) \ {i} : RuleRaises(rules[j])
            /\ doc.ok =>
                  /\ BlocksOf(rules[i].frontend_domain) # {}
                  /\ \A k \in BlocksOf(rules[i].frontend_domain) :
                        Directives(doc.blocks[k], {"allow", "deny"}) = <<>>

\* a document with the block of such a rule next to a rule whose allow-list
\* was rendered
C30_Witness ==
    /\ Rendered
    /\ UnparseableWhitelist = {1}
    /\ BlocksOf(rules[1].frontend_domain) # {}
    /\ \E k \in 1..Len(doc.blocks) : Directives(doc.blocks[k], {"allow"}) # <<>>

====
